---- MODULE Spec2Model ----
(***************************************************************************)
(* A model of jira_issues.py: the extraction of JIRA issue rows into a     *)
(* DataFrame (extract_jira_issues), the formatting of the Excel report     *)
(* (generate_excel_report, adjust_column_widths) and the orchestration of  *)
(* the queries (main).                                                     *)
(*                                                                         *)
(* Text is a sequence of one-character strings, so that lower(), title(),  *)
(* replace() and strip() are computed character by character.  A Python    *)
(* value is a tagged record: Str(s), NoneV, or a naive datetime.           *)
(***************************************************************************)
EXTENDS Integers, Sequences, FiniteSets, TLC

\* ------------------------------------------------------------------ bounds

\* The longest page (number of <tr> rows) explored row by row.
MaxRows == 3

\* The last day a datetime can hold, counted from datetime.min's day 0: the
\* model's stand-in for 9999-12-31.
DateMaxDay == 2

\* The most records of a DataFrame written to a sheet on its own.
MaxSheetRows == 2

\* The most JIRA filters the .env file defines.
MaxFilters == 2

\* ------------------------------------------------------------ Python values

Str(s) == [kind |-> "str", s |-> s]

NoneV == [kind |-> "none"]

\* A naive datetime (tzinfo=None), to the minute.
Naive(d, h, m) == [kind |-> "datetime", day |-> d, hour |-> h, minute |-> m]

\* The text of an ISO-8601 timestamp with a UTC offset (in minutes), as the
\* datetime attribute of a <time> element holds it: a string, whose parse is
\* the aware datetime of the same components.
IsoStr(d, h, m, off) ==
    [kind |-> "str", iso |-> [day |-> d, hour |-> h, minute |-> m, off |-> off]]

EmptyStr == Str(<< >>)

\* Python truthiness of a value (None, "" are falsy).
Truthy(v) ==
    /\ v.kind # "none"
    /\ v.kind = "str" => ("iso" \in DOMAIN v \/ v.s # << >>)

\* ------------------------------------------------------------------- text

LowerLetters ==
    << "a", "b", "c", "d", "e", "f", "g", "h", "i", "j", "k", "l", "m",
       "n", "o", "p", "q", "r", "s", "t", "u", "v", "w", "x", "y", "z" >>

UpperLetters ==
    << "A", "B", "C", "D", "E", "F", "G", "H", "I", "J", "K", "L", "M",
       "N", "O", "P", "Q", "R", "S", "T", "U", "V", "W", "X", "Y", "Z" >>

IndexIn(c, letters) ==
    IF \E i \in 1..Len(letters) : letters[i] = c
    THEN CHOOSE i \in 1..Len(letters) : letters[i] = c
    ELSE 0

IsCased(c) == IndexIn(c, LowerLetters) > 0 \/ IndexIn(c, UpperLetters) > 0

LowerChar(c) ==
    IF IndexIn(c, UpperLetters) > 0 THEN LowerLetters[IndexIn(c, UpperLetters)] ELSE c

UpperChar(c) ==
    IF IndexIn(c, LowerLetters) > 0 THEN UpperLetters[IndexIn(c, LowerLetters)] ELSE c

\* str.lower()
lower(s) == [i \in 1..Len(s) |-> LowerChar(s[i])]

\* str.title(): a cased character is upper-cased when the character before it
\* is not cased, and lower-cased otherwise.
title(s) ==
    [i \in 1..Len(s) |->
        IF i > 1 /\ IsCased(s[i - 1]) THEN LowerChar(s[i]) ELSE UpperChar(s[i])]

StartsWithAt(s, i, old) ==
    /\ i + Len(old) - 1 <= Len(s)
    /\ \A k \in 1..Len(old) : s[i + k - 1] = old[k]

\* str.replace(old, new) for a non-empty old: every non-overlapping occurrence,
\* left to right.
RECURSIVE ReplaceFrom(_, _, _, _)
ReplaceFrom(s, i, old, new) ==
    IF i > Len(s) THEN << >>
    ELSE IF StartsWithAt(s, i, old)
         THEN new \o ReplaceFrom(s, i + Len(old), old, new)
         ELSE << s[i] >> \o ReplaceFrom(s, i + 1, old, new)

replace(s, old, new) == ReplaceFrom(s, 1, old, new)

IsSpace(c) == c = " "

RECURSIVE lstrip(_)
lstrip(s) == IF s # << >> /\ IsSpace(Head(s)) THEN lstrip(Tail(s)) ELSE s

RECURSIVE rstrip(_)
rstrip(s) ==
    IF s # << >> /\ IsSpace(s[Len(s)]) THEN rstrip(SubSeq(s, 1, Len(s) - 1)) ELSE s

\* str.strip()
strip(s) == rstrip(lstrip(s))

\* ------------------------------------------------------- the page's rows

\* What find_element raises NoSuchElementException for.
Absent == [kind |-> "absent"]

IsAbsent(e) == e.kind = "absent"

\* <td class="issuekey"> holding (or not) <a class="issue-link" href=...>
TdIssueKey(a) == [kind |-> "td", a_issue_link |-> a]

Anchor(href) == [kind |-> "a", href |-> href]

\* <td class="issuetype"> and <td class="priority"> holding (or not) <img alt=...>
TdImg(img) == [kind |-> "td", img |-> img]

Img(alt) == [kind |-> "img", alt |-> alt]

\* <td class="summary"> holding <p>, <td class="status"> holding <span>
TdNested(e) == [kind |-> "td", nested |-> e]

TextElem(text) == [kind |-> "elem", text |-> text]

\* <td class="customfield_14400">, <td class="customfield_15400">: own text
TdText(text) == [kind |-> "td", text |-> text]

\* <td class="assignee">: an <em>, an <a class="user-hover">, and its text
TdAssignee(em, a, text) == [kind |-> "td", em |-> em, a_user_hover |-> a, text |-> text]

\* <td class="created"> holding (or not) <time datetime=...>
TdCreated(time) == [kind |-> "td", time |-> time]

TimeElem(datetime) == [kind |-> "time", datetime |-> datetime]

\* ------------------------------------------------- extract_jira_issues

\* The issue link: td.issuekey, a.issue-link, its href (None when the anchor
\* has no href: get_attribute returns None and nothing raises).
issue_link(row) ==
    IF IsAbsent(row.td_issuekey) THEN EmptyStr
    ELSE IF IsAbsent(row.td_issuekey.a_issue_link) THEN EmptyStr
    ELSE row.td_issuekey.a_issue_link.href

\* get_attribute("alt").strip() of the <img> of a cell; None.strip() raises
\* AttributeError, which the except absorbs.
img_alt(td) ==
    IF IsAbsent(td) THEN EmptyStr
    ELSE IF IsAbsent(td.img) THEN EmptyStr
    ELSE IF td.img.alt.kind = "none" THEN EmptyStr
    ELSE Str(strip(td.img.alt.s))

issue_type(row) == img_alt(row.td_issuetype)

priority(row) == img_alt(row.td_priority)

\* .text.strip() of the element nested in a cell
nested_text(td) ==
    IF IsAbsent(td) THEN EmptyStr
    ELSE IF IsAbsent(td.nested) THEN EmptyStr
    ELSE Str(strip(td.nested.text))

summary(row) == nested_text(row.td_summary)

status(row) == nested_text(row.td_status)

\* .text.strip() of a cell
cell_text(td) == IF IsAbsent(td) THEN EmptyStr ELSE Str(strip(td.text))

customer_object_id(row) == cell_text(row.td_customfield_14400)

classification(row) == cell_text(row.td_customfield_15400)

\* A mutant of assignee: the user link is looked up before the <em>.
assignee_link_first(row) ==
    IF IsAbsent(row.td_assignee) THEN EmptyStr
    ELSE IF ~IsAbsent(row.td_assignee.a_user_hover)
         THEN Str(strip(row.td_assignee.a_user_hover.text))
         ELSE IF ~IsAbsent(row.td_assignee.em)
              THEN Str(strip(row.td_assignee.em.text))
              ELSE Str(strip(row.td_assignee.text))

\* The assignee: the <em> when there is one, else the a.user-hover when there
\* is one, else the cell's text.
assignee(row) ==
    IF IsAbsent(row.td_assignee) THEN EmptyStr
    ELSE IF ~IsAbsent(row.td_assignee.em)
         THEN Str(strip(row.td_assignee.em.text))
         ELSE IF ~IsAbsent(row.td_assignee.a_user_hover)
              THEN Str(strip(row.td_assignee.a_user_hover.text))
              ELSE Str(strip(row.td_assignee.text))

\* parser.isoparse: whether the string parses
IsIso(v) == v.kind = "str" /\ "iso" \in DOMAIN v

\* Minutes since the start of day 0 of a wall-clock reading.
WallMinutes(d, h, m) == (d * 24 + h) * 60 + m

\* The last minute a datetime can hold.
MaxMinutes == WallMinutes(DateMaxDay, 23, 59)

\* A mutant of astimezone_utc: the offset is added.
astimezone_utc_added(t) ==
    LET total == WallMinutes(t.day, t.hour, t.minute) + t.off
    IN  IF total < 0 \/ total > MaxMinutes
        THEN [kind |-> "OverflowError"]
        ELSE Naive(total \div (24 * 60), (total % (24 * 60)) \div 60, total % 60)

\* dt_with_tz.astimezone(timezone.utc).replace(tzinfo=None): the wall clock
\* minus the offset, renormalised; OverflowError outside datetime's range.
astimezone_utc(t) ==
    LET total == WallMinutes(t.day, t.hour, t.minute) - t.off
    IN  IF total < 0 \/ total > MaxMinutes
        THEN [kind |-> "OverflowError"]
        ELSE Naive(total \div (24 * 60), (total % (24 * 60)) \div 60, total % 60)

\* A mutant of created_date: a failed conversion leaves the empty string.
created_date_no_fallback(row) ==
    IF IsAbsent(row.td_created) THEN EmptyStr
    ELSE IF IsAbsent(row.td_created.time) THEN EmptyStr
    ELSE LET iso_date == row.td_created.time.datetime
         IN  IF ~Truthy(iso_date) THEN EmptyStr
             ELSE IF ~IsIso(iso_date) THEN EmptyStr
             ELSE IF astimezone_utc(iso_date.iso).kind = "OverflowError" THEN EmptyStr
             ELSE astimezone_utc(iso_date.iso)

\* The created date: the datetime attribute of the <time> of td.created,
\* converted to naive UTC; the attribute as it is when the conversion raises.
created_date(row) ==
    IF IsAbsent(row.td_created) THEN EmptyStr
    ELSE IF IsAbsent(row.td_created.time) THEN EmptyStr
    ELSE LET iso_date == row.td_created.time.datetime
         IN  IF ~Truthy(iso_date) THEN EmptyStr
             ELSE IF ~IsIso(iso_date) THEN iso_date
             ELSE IF astimezone_utc(iso_date.iso).kind = "OverflowError" THEN iso_date
             ELSE astimezone_utc(iso_date.iso)

\* One row's values, in the order of the DataFrame's columns.
ExtractRow(row) ==
    [ IssueKey         |-> row.data_issuekey,
      IssueType        |-> issue_type(row),
      IssueLink        |-> issue_link(row),
      Summary          |-> summary(row),
      Status           |-> status(row),
      Priority         |-> priority(row),
      CustomerObjectId |-> customer_object_id(row),
      Assignee         |-> assignee(row),
      Created          |-> created_date(row),
      Classification   |-> classification(row) ]

\* A mutant of AppendIfKey: the row is appended whatever its key.
AppendAlways(lists, row) == Append(lists, ExtractRow(row))

\* "if issue_key:": the ten lists (here one list of rows' values) grow by the
\* row only when its data-issuekey is neither None nor empty.
AppendIfKey(lists, row) ==
    IF Truthy(row.data_issuekey) THEN Append(lists, ExtractRow(row)) ELSE lists

\* The whole loop over the rows of a page.
RECURSIVE ExtractFrom(_, _)
ExtractFrom(page_rows, lists) ==
    IF page_rows = << >> THEN lists
    ELSE ExtractFrom(Tail(page_rows), AppendIfKey(lists, Head(page_rows)))

\* ----------------------------- generate_excel_report, adjust_column_widths

\* The DataFrame's columns, in the order of the dict given to pd.DataFrame.
AllFields ==
    << "IssueKey", "IssueType", "IssueLink", "Summary", "Status", "Priority",
       "CustomerObjectId", "Assignee", "Created", "Classification" >>

\* The column names of the DataFrame.
HeaderText(f) ==
    CASE f = "IssueKey" -> << "I", "s", "s", "u", "e", " ", "K", "e", "y" >>
      [] f = "IssueType" -> << "I", "s", "s", "u", "e", " ", "T", "y", "p", "e" >>
      [] f = "IssueLink" -> << "I", "s", "s", "u", "e", " ", "l", "i", "n", "k" >>
      [] f = "Summary" -> << "S", "u", "m", "m", "a", "r", "y" >>
      [] f = "Status" -> << "S", "t", "a", "t", "u", "s" >>
      [] f = "Priority" -> << "P", "r", "i", "o", "r", "i", "t", "y" >>
      [] f = "CustomerObjectId" ->
           << "C", "u", "s", "t", "o", "m", "e", "r", " ", "O", "b", "j", "e", "c", "t",
              " ", "I", "D" >>
      [] f = "Assignee" -> << "A", "s", "s", "i", "g", "n", "e", "e" >>
      [] f = "Created" -> << "C", "r", "e", "a", "t", "e", "d" >>
      [] f = "Classification" ->
           << "C", "l", "a", "s", "s", "i", "f", "i", "c", "a", "t", "i", "o", "n" >>

DataFrame(columns, records) ==
    [kind |-> "DataFrame", columns |-> columns, records |-> records]

\* A cell as openpyxl creates it.
Cell(v) ==
    [value |-> v, bold |-> FALSE, fill |-> "none", hyperlink |-> NoneV,
     style |-> "Normal", number_format |-> "General"]

\* df.to_excel(writer, sheet_name=sheet_name, index=False): a header row of
\* the column names, then a row per record; a None is written as "" (na_rep).
to_excel(frame, sheet_name) ==
    [ title |-> sheet_name,
      cells |->
        << [c \in 1..Len(frame.columns) |-> Cell(Str(HeaderText(frame.columns[c])))] >> \o
        [r \in 1..Len(frame.records) |->
           [c \in 1..Len(frame.columns) |->
              LET v == frame.records[r][frame.columns[c]]
              IN  Cell(IF v.kind = "none" THEN EmptyStr ELSE v)]],
      widths |-> [c \in 1..Len(frame.columns) |-> 0],
      auto_filter |-> NoneV ]

max_row(ws) == Len(ws.cells)

NumCols(ws) == Len(ws.cells[1])

\* "for cell in worksheet[1]": bold font and fill of the header row
format_header(ws) ==
    [ws EXCEPT !.cells[1] =
        [c \in 1..NumCols(ws) |-> [ws.cells[1][c] EXCEPT !.bold = TRUE, !.fill = "DDEBF7"]]]

\* "for i, header in enumerate(worksheet[1], 1)": the index of the column
\* with this header, None (0) when there is none; the last one wins.
RECURSIVE FindHeader(_, _, _, _)
FindHeader(ws, text, i, found) ==
    IF i > NumCols(ws) THEN found
    ELSE FindHeader(ws, text, i + 1, IF ws.cells[1][i].value = Str(text) THEN i ELSE found)

\* A mutant of link_col_index: the link column is taken to be the third, as
\* in the ten-column DataFrame.
link_col_index_fixed(ws) == IF NumCols(ws) >= 3 THEN 3 ELSE 0

link_col_index(ws) == FindHeader(ws, HeaderText("IssueLink"), 1, 0)

date_col_index(ws) == FindHeader(ws, HeaderText("Created"), 1, 0)

\* "if cell.value and isinstance(cell.value, str)"
IsLinkText(v) == Truthy(v) /\ v.kind = "str"

\* A mutant of convert_links: the cell's text is replaced by a caption once
\* its hyperlink is set.
convert_links_retitled(ws) ==
    LET col == link_col_index(ws)
    IN  IF col = 0 THEN ws
        ELSE [ws EXCEPT !.cells =
                [r \in 1..max_row(ws) |->
                   IF r >= 2 /\ IsLinkText(ws.cells[r][col].value)
                   THEN [ws.cells[r] EXCEPT ![col] =
                           [ws.cells[r][col] EXCEPT !.hyperlink = ws.cells[r][col].value,
                                                    !.style = "Hyperlink",
                                                    !.value = Str(<< "l", "i", "n", "k" >>)]]
                   ELSE ws.cells[r]]]

\* The hyperlinks of the link column's data rows.
convert_links(ws) ==
    LET col == link_col_index(ws)
    IN  IF col = 0 THEN ws
        ELSE [ws EXCEPT !.cells =
                [r \in 1..max_row(ws) |->
                   IF r >= 2 /\ IsLinkText(ws.cells[r][col].value)
                   THEN [ws.cells[r] EXCEPT ![col] =
                           [ws.cells[r][col] EXCEPT !.hyperlink = ws.cells[r][col].value,
                                                    !.style = "Hyperlink"]]
                   ELSE ws.cells[r]]]

\* The number format of the date column's data rows.
format_dates(ws) ==
    LET col == date_col_index(ws)
    IN  IF col = 0 THEN ws
        ELSE [ws EXCEPT !.cells =
                [r \in 1..max_row(ws) |->
                   IF r >= 2 /\ Truthy(ws.cells[r][col].value)
                   THEN [ws.cells[r] EXCEPT ![col] =
                           [ws.cells[r][col] EXCEPT !.number_format = "yyyy-mm-dd hh:mm:ss"]]
                   ELSE ws.cells[r]]]

\* len(str(cell.value)): a datetime prints as "YYYY-MM-DD HH:MM:SS", a
\* timestamp's text as "YYYY-MM-DDTHH:MM:SS+HH:MM".
StrLen(v) ==
    CASE v.kind = "datetime" -> 19
      [] v.kind = "none" -> 4
      [] v.kind = "str" /\ "iso" \in DOMAIN v -> 25
      [] OTHER -> Len(v.s)

\* The default of adjust_column_widths' max_width.
max_width == 80

\* "for cell in col": the longest of the column's cells, the header included
RECURSIVE ColumnMaxLength(_, _, _, _)
ColumnMaxLength(ws, c, r, max_length) ==
    IF r > max_row(ws) THEN max_length
    ELSE LET cell_length == StrLen(ws.cells[r][c].value)
         IN  ColumnMaxLength(ws, c, r + 1,
                             IF cell_length > max_length THEN cell_length ELSE max_length)

Max2(a, b) == IF a >= b THEN a ELSE b

Min2(a, b) == IF a <= b THEN a ELSE b

\* A mutant of adjusted_width: the max_width limit is not applied.
adjusted_width_unlimited(ws, c) ==
    Max2(2 * ColumnMaxLength(ws, c, 1, 0), 3 * StrLen(ws.cells[1][c].value)) + 4

\* Twice the width of column c (the header's length counts 1.5 times, so the
\* width is a multiple of one half):
\*   min(max(max_length, header_length * 1.5) + 2, max_width)
adjusted_width(ws, c) ==
    Min2(Max2(2 * ColumnMaxLength(ws, c, 1, 0), 3 * StrLen(ws.cells[1][c].value)) + 4,
         2 * max_width)

\* adjust_column_widths(sheet): every column's width (in halves)
adjust_column_widths(ws) ==
    [ws EXCEPT !.widths = [c \in 1..NumCols(ws) |-> adjusted_width(ws, c)]]

\* worksheet.auto_filter.ref = worksheet.dimensions: A1 to the last cell
apply_filter(ws) ==
    [ws EXCEPT !.auto_filter = [first_row |-> 1, first_col |-> 1,
                                last_row |-> max_row(ws), last_col |-> NumCols(ws)]]

\* One sheet of generate_excel_report: written, then formatted.
format_sheet(ws) ==
    apply_filter(adjust_column_widths(format_dates(convert_links(format_header(ws)))))

\* ------------------------------------------------------------------- main

\* format_sheet_name(name): lower case, underscores to spaces, title case
format_sheet_name(name) == title(replace(lower(name), << "_" >>, << " " >>))

\* FILTER_PATTERN, the prefix of the filters' names in the .env file (here
\* "F_"; "JIRA_FILTER_" by default).
filter_pattern == << "F", "_" >>

\* raw_sheet_name = filter_name.replace(filter_pattern, ""), then formatted
sheet_name_of(filter_name) == format_sheet_name(replace(filter_name, filter_pattern, << >>))

\* Whether the dict has the key.
HasEntry(dict, key) == \E k \in 1..Len(dict) : dict[k].key = key

\* dataframes_dict[sheet_name] = jira_issues_df: a dict keeps its keys in the
\* order of their first insertion; an assignment to a key it has replaces
\* the value in place.
DictSet(dict, key, value) ==
    IF HasEntry(dict, key)
    THEN [k \in 1..Len(dict) |->
            IF dict[k].key = key THEN [key |-> key, value |-> value] ELSE dict[k]]
    ELSE Append(dict, [key |-> key, value |-> value])

\* The characters openpyxl refuses in a sheet title (ValueError).
InvalidTitleChars == { "\\", "*", "?", ":", "/", "[", "]" }

\* Whether the workbook takes every sheet of the dict and can be saved: no
\* title with a refused character, and at least one sheet.
ReportWritable(dict) ==
    /\ dict # << >>
    /\ \A k \in 1..Len(dict) : \A i \in 1..Len(dict[k].key) :
         dict[k].key[i] \notin InvalidTitleChars

\* The sheet names given to to_excel, in order, up to the first one refused.
RECURSIVE HandedNames(_)
HandedNames(dict) ==
    IF dict = << >> THEN << >>
    ELSE IF \E i \in 1..Len(Head(dict).key) : Head(dict).key[i] \in InvalidTitleChars
         THEN << Head(dict).key >>
         ELSE << Head(dict).key >> \o HandedNames(Tail(dict))

\* generate_excel_report: a formatted sheet per entry of the dict, in its order
Workbook(dict) ==
    [ kind |-> "Workbook",
      sheets |-> [k \in 1..Len(dict) |-> format_sheet(to_excel(dict[k].value, dict[k].key))] ]

\* A mutant of SumLen: only the first DataFrame is counted.
LenOfFirst(dict) == IF dict = << >> THEN 0 ELSE Len(Head(dict).value.records)

RECURSIVE SumLen(_)
SumLen(dict) ==
    IF dict = << >> THEN 0 ELSE Len(Head(dict).value.records) + SumLen(Tail(dict))

\* generate_email_draft: the numbers put in the body template
EmailBody(dict) ==
    [ NUM_ISSUES |-> SumLen(dict),
      NUM_PESTANAS |-> Len(dict),
      LISTA_PESTANAS |->
        [k \in 1..Len(dict) |-> [name |-> dict[k].key, issues |-> Len(dict[k].value.records)]] ]

\* ------------------------------------------------------------- the inputs

KeyInputs == { Str(<< "K", "-", "1" >>), Str(<< "K", "-", "2" >>), NoneV, EmptyStr }

Texts == { << >>, << "x" >>, << " ", "x", " ", "y", " " >>, << " " >> }

TdIssueKeyInputs ==
    { Absent, TdIssueKey(Absent), TdIssueKey(Anchor(NoneV)), TdIssueKey(Anchor(EmptyStr)),
      TdIssueKey(Anchor(Str(<< "h", ":", "/", "1" >>))) }

TdImgInputs ==
    { Absent, TdImg(Absent), TdImg(Img(NoneV)) } \cup { TdImg(Img(Str(t))) : t \in Texts }

TdNestedInputs == { Absent, TdNested(Absent) } \cup { TdNested(TextElem(t)) : t \in Texts }

TdTextInputs == { Absent } \cup { TdText(t) : t \in Texts }

TdAssigneeInputs ==
    { Absent } \cup
    { TdAssignee(em, a, t) :
        em \in { Absent, TextElem(<< >>), TextElem(<< " ", "U", " " >>) },
        a \in { Absent, TextElem(<< >>), TextElem(<< "b", "o", "b" >>) },
        t \in { << >>, << " ", "r", " " >> } }

\* UTC offsets in minutes, from -12:00 to +14:00.
Offsets == { -720, -90, 0, 60, 840 }

IsoInputs ==
    { IsoStr(d, h, m, off) : d \in 0..DateMaxDay, h \in { 0, 11, 23 }, m \in { 0, 30 },
                             off \in Offsets }

TdCreatedInputs ==
    { Absent, TdCreated(Absent) } \cup
    { TdCreated(TimeElem(v)) :
        v \in { NoneV, EmptyStr, Str(<< "1", "h", " ", "a", "g", "o" >>) } \cup IsoInputs }

\* A row with every cell as JIRA renders it.
RegularRow ==
    [ data_issuekey        |-> Str(<< "K", "-", "1" >>),
      td_issuekey          |-> TdIssueKey(Anchor(Str(<< "h", ":", "/", "1" >>))),
      td_issuetype         |-> TdImg(Img(Str(<< "B", "u", "g" >>))),
      td_summary           |-> TdNested(TextElem(<< "s", "u", "m" >>)),
      td_status            |-> TdNested(TextElem(<< "O", "p", "e", "n" >>)),
      td_priority          |-> TdImg(Img(Str(<< "H", "i" >>))),
      td_customfield_14400 |-> TdText(<< "4", "2" >>),
      td_assignee          |-> TdAssignee(Absent, TextElem(<< "b", "o", "b" >>), << "b", "o", "b" >>),
      td_created           |-> TdCreated(TimeElem(IsoStr(1, 11, 30, 60))),
      td_customfield_15400 |-> TdText(<< "c" >>) ]

\* Every value a cell (or the row's attribute) may take, with the cell's name.
CellChoices ==
    UNION { { << "data_issuekey", v >> : v \in KeyInputs },
            { << "td_issuekey", v >> : v \in TdIssueKeyInputs },
            { << "td_issuetype", v >> : v \in TdImgInputs },
            { << "td_summary", v >> : v \in TdNestedInputs },
            { << "td_status", v >> : v \in TdNestedInputs },
            { << "td_priority", v >> : v \in TdImgInputs },
            { << "td_customfield_14400", v >> : v \in TdTextInputs },
            { << "td_assignee", v >> : v \in TdAssigneeInputs },
            { << "td_created", v >> : v \in TdCreatedInputs },
            { << "td_customfield_15400", v >> : v \in TdTextInputs } }

\* The rows that differ from the regular one in at most two places.
RowInputs ==
    { [ [ RegularRow EXCEPT ![c1[1]] = c1[2] ] EXCEPT ![c2[1]] = c2[2] ] :
        c1 \in CellChoices, c2 \in CellChoices }

\* A few rows for the pages of several rows: two with a key, one without the
\* attribute, one with an empty attribute.
SampleRows ==
    { RegularRow,
      [ RegularRow EXCEPT !.data_issuekey = Str(<< "K", "-", "2" >>),
                          !.td_priority = Absent,
                          !.td_assignee = TdAssignee(TextElem(<< "U" >>), Absent, << "U" >>) ],
      [ RegularRow EXCEPT !.data_issuekey = NoneV ],
      [ RegularRow EXCEPT !.data_issuekey = EmptyStr, !.td_summary = Absent ] }

RECURSIVE SeqsUpTo(_, _)
SeqsUpTo(S, n) ==
    IF n = 0 THEN { << >> }
    ELSE LET shorter == SeqsUpTo(S, n - 1)
         IN  shorter \cup { Append(q, x) : q \in shorter, x \in S }

\* The pages extract_jira_issues is run on: any single row, and up to MaxRows
\* sample rows in any order.
PageInputs == { << r >> : r \in RowInputs } \cup SeqsUpTo(SampleRows, MaxRows)

\* A text of n characters.
TextOfLen(n) == [i \in 1..n |-> "x"]

\* Records for the sheets formatted on their own: status texts around and far
\* beyond the width limit, links and dates present, empty and missing.
SheetRecordInputs ==
    { [ ExtractRow(RegularRow) EXCEPT !.Status = Str(TextOfLen(v[1])),
                                      !.IssueLink = v[2], !.Created = v[3] ] :
        v \in { << 4, Str(<< "h", ":", "/", "1" >>), Naive(1, 10, 30) >>,
                << 500, NoneV, EmptyStr >>,
                << 77, EmptyStr, IsoStr(0, 0, 0, 60) >>,
                << 78, Str(<< "h", ":", "/", "2" >>), Naive(0, 0, 0) >>,
                << 79, Str(<< "h", ":", "/", "3" >>), Str(<< "1", "h", " ", "a", "g", "o" >>) >>,
                << 0, NoneV, Naive(2, 23, 30) >> } }

\* The column sets of the DataFrames formatted on their own: the ten columns,
\* and frames of other columns, with and without the link and the date, the
\* link in the third column as in the ten, and in the first.
SheetColumnInputs ==
    { AllFields,
      << "Status", "Created", "IssueLink" >>,
      << "IssueLink", "Created", "Status" >>,
      << "IssueKey", "Status" >> }

FrameInputs ==
    { DataFrame(cols, recs) :
        cols \in SheetColumnInputs, recs \in SeqsUpTo(SheetRecordInputs, MaxSheetRows) }

\* The names of the filters in the .env file: all begin with the pattern.
\* Two differ only in case, one holds the pattern twice, one a character no
\* sheet title may hold, one is 32 characters long once the pattern is off.
FilterNameInputs ==
    { filter_pattern \o << "O", "P", "E", "N" >>,
      filter_pattern \o << "o", "p", "e", "n" >>,
      filter_pattern \o << "d", "o", "n", "e", "_", "q", "1" >>,
      filter_pattern \o filter_pattern \o << "o", "p", "e", "n" >>,
      filter_pattern \o << "a", "/", "b" >>,
      filter_pattern \o TextOfLen(32) }

\* The .env file's filters, in its order: the keys of a dict, so all different.
FilterInputs ==
    { fs \in SeqsUpTo(FilterNameInputs, MaxFilters) :
        \A a, b \in 1..Len(fs) : a # b => fs[a] # fs[b] }

SampleRow(key) == [ RegularRow EXCEPT !.data_issuekey = key ]

\* The pages a query may load: with or without the wait target, with or
\* without the issue table, the table with no, one or three rows.
LoadedPages ==
    { [wait_present |-> w, table_present |-> FALSE, rows |-> << >>] : w \in BOOLEAN } \cup
    { [wait_present |-> w, table_present |-> TRUE, rows |-> rs] :
        w \in BOOLEAN,
        rs \in { << >>,
                 << SampleRow(Str(<< "K", "-", "2" >>)) >>,
                 << SampleRow(Str(<< "K", "-", "1" >>)), SampleRow(NoneV),
                    SampleRow(Str(<< "K", "-", "3" >>)) >> } }

\* ------------------------------------------------------------------ state

VARIABLES
    rows,        \* extract_jira_issues: the <tr> elements found in the table
    row_index,   \* the number of rows the for loop has been through
    lists,       \* the values collected so far (issue_keys, issue_types, ...)
    df,          \* the DataFrame returned, None before
    xpc,         \* where extract_jira_issues is: "loop", "frame", "done", "idle"
    frame,       \* generate_excel_report: the DataFrame of the sheet in hand
    worksheet,   \* the sheet in hand, None before it is written
    spc,         \* where the sheet's formatting is: "write", "header", ..., "done",
                 \* "again" once formatted a second time
    jira_filters,     \* main: the names of the filters loaded, in order
    wait_element,     \* whether WAIT_ELEMENT names an element (it does by default)
    filter_index,     \* the number of filters the loop has gone through
    sheet_name,       \* the sheet name of the filter in hand
    page,             \* the page the driver holds, None before the first
    dataframes_dict,  \* sheet name -> DataFrame, in insertion order
    timed_out,        \* the filters (by index) whose wait for the wait target or
                      \* for the issue table timed out
    handed,           \* the sheet names given to to_excel
    workbook,         \* the sheets of the Excel file, None before it is written
    excel_file,       \* "none", "saved", "removed", "remove_failed" (still there
                      \* after os.remove raised)
    email,            \* what the email's body was given, None before
    email_success,    \* "unset", "yes", "no"
    quits,            \* the number of calls of driver.quit()
    error,            \* the exception leaving main's try block, "none" if none
    pc                \* where main is: "loop", "extract", "email", "remove",
                      \* "finally", "done"

xvars == << rows, row_index, lists, df, xpc >>

svars == << frame, worksheet, spc >>

mvars == << jira_filters, wait_element, filter_index, sheet_name, page, dataframes_dict,
            timed_out, handed, workbook, excel_file, email, email_success, quits, error, pc >>

vars == << xvars, svars, mvars >>

\* main is not running.
MIdle ==
    /\ jira_filters = << >> /\ wait_element = TRUE /\ filter_index = 0
    /\ sheet_name = << >> /\ page = NoneV /\ dataframes_dict = << >>
    /\ timed_out = { } /\ handed = << >> /\ workbook = NoneV /\ excel_file = "none"
    /\ email = NoneV /\ email_success = "unset" /\ quits = 0 /\ error = "none"
    /\ pc = "idle"

\* extract_jira_issues is not running.
XIdle == rows = << >> /\ row_index = 0 /\ lists = << >> /\ df = NoneV /\ xpc = "idle"

\* No sheet is being formatted on its own.
SIdle == frame = NoneV /\ worksheet = NoneV /\ spc = "idle"

\* ------------------------------------- extract_jira_issues, row by row

XInit ==
    /\ rows \in PageInputs
    /\ row_index = 0
    /\ lists = << >>
    /\ df = NoneV
    /\ xpc = "loop"
    /\ SIdle
    /\ MIdle

\* One iteration of "for row in rows".
LoopRow ==
    /\ xpc = "loop"
    /\ row_index < Len(rows)
    /\ lists' = AppendIfKey(lists, rows[row_index + 1])
    /\ row_index' = row_index + 1
    /\ UNCHANGED << rows, df, xpc, svars, mvars >>

\* The loop is over.
LoopEnd ==
    /\ xpc = "loop"
    /\ row_index = Len(rows)
    /\ xpc' = "frame"
    /\ UNCHANGED << rows, row_index, lists, df, svars, mvars >>

\* pd.DataFrame({...}); return df
BuildFrame ==
    /\ xpc = "frame"
    /\ df' = DataFrame(AllFields, lists)
    /\ xpc' = "done"
    /\ UNCHANGED << rows, row_index, lists, svars, mvars >>

XNext == LoopRow \/ LoopEnd \/ BuildFrame

SpecExtract == XInit /\ [][XNext]_vars

\* ----------------------------- generate_excel_report, one sheet, by steps

SInit ==
    /\ frame \in FrameInputs
    /\ worksheet = NoneV
    /\ spc = "write"
    /\ XIdle
    /\ MIdle

\* df.to_excel(writer, sheet_name=sheet_name, index=False)
WriteSheet ==
    /\ spc = "write"
    /\ worksheet' = to_excel(frame, << "S" >>)
    /\ spc' = "header"
    /\ UNCHANGED << frame, xvars, mvars >>

\* The header row's font and fill.
FormatHeader ==
    /\ spc = "header"
    /\ worksheet' = format_header(worksheet)
    /\ spc' = "links"
    /\ UNCHANGED << frame, xvars, mvars >>

\* The link column's hyperlinks.
ConvertLinks ==
    /\ spc = "links"
    /\ worksheet' = convert_links(worksheet)
    /\ spc' = "dates"
    /\ UNCHANGED << frame, xvars, mvars >>

\* The date column's number format.
FormatDates ==
    /\ spc = "dates"
    /\ worksheet' = format_dates(worksheet)
    /\ spc' = "widths"
    /\ UNCHANGED << frame, xvars, mvars >>

\* adjust_column_widths(worksheet)
AdjustWidths ==
    /\ spc = "widths"
    /\ worksheet' = adjust_column_widths(worksheet)
    /\ spc' = "filter"
    /\ UNCHANGED << frame, xvars, mvars >>

\* worksheet.auto_filter.ref = worksheet.dimensions
ApplyFilter ==
    /\ spc = "filter"
    /\ worksheet' = apply_filter(worksheet)
    /\ spc' = "done"
    /\ UNCHANGED << frame, xvars, mvars >>

\* The formatting steps applied once more to the formatted sheet.
Reformat ==
    /\ spc = "done"
    /\ worksheet' = format_sheet(worksheet)
    /\ spc' = "again"
    /\ UNCHANGED << frame, xvars, mvars >>

SNext ==
    \/ WriteSheet
    \/ FormatHeader
    \/ ConvertLinks
    \/ FormatDates
    \/ AdjustWidths
    \/ ApplyFilter
    \/ Reformat

SpecSheet == SInit /\ [][SNext]_vars

\* ------------------------------------------------------------------- main

Init ==
    /\ jira_filters \in FilterInputs
    /\ wait_element \in BOOLEAN
    /\ filter_index = 0
    /\ sheet_name = << >>
    /\ page = NoneV
    /\ dataframes_dict = << >>
    /\ timed_out = { }
    /\ handed = << >>
    /\ workbook = NoneV
    /\ excel_file = "none"
    /\ email = NoneV
    /\ email_success = "unset"
    /\ quits = 0
    /\ error = "none"
    /\ pc = "loop"
    /\ XIdle
    /\ SIdle

\* A mutant of Raise: the exception leaves main at once, as it would without
\* the finally clause.
RaiseSkippingFinally(exception) ==
    /\ error' = exception
    /\ pc' = "done"

\* An exception leaves the try block: on to the finally clause.
Raise(exception) ==
    /\ error' = exception
    /\ pc' = "finally"

\* The next filter: its sheet name, then navigate_to_url with WAIT_ELEMENT
\* set.  The page loads; a timeout of the wait for the element is caught and
\* printed, and navigate_to_url returns all the same.
Navigate ==
    /\ pc = "loop"
    /\ filter_index < Len(jira_filters)
    /\ wait_element
    /\ \E p \in LoadedPages :
         /\ page' = p
         /\ timed_out' = IF p.wait_present THEN timed_out
                         ELSE timed_out \cup { filter_index + 1 }
    /\ sheet_name' = sheet_name_of(jira_filters[filter_index + 1])
    /\ pc' = "extract"
    /\ UNCHANGED << jira_filters, wait_element, filter_index, dataframes_dict, handed,
                    workbook, excel_file, email, email_success, quits, error, xvars, svars >>

\* navigate_to_url with WAIT_ELEMENT empty: the wait for document.readyState
\* is outside any try; it returns, or its TimeoutException leaves main.
NavigateNoElement ==
    /\ pc = "loop"
    /\ filter_index < Len(jira_filters)
    /\ ~wait_element
    /\ sheet_name' = sheet_name_of(jira_filters[filter_index + 1])
    /\ \E p \in LoadedPages :
         /\ page' = p
         /\ \/ pc' = "extract" /\ UNCHANGED error
            \/ Raise("TimeoutException")
    /\ UNCHANGED << jira_filters, wait_element, filter_index, dataframes_dict, timed_out,
                    handed, workbook, excel_file, email, email_success, quits, xvars, svars >>

\* driver.get(url) raises (the browser or the network fails).
NavigateFails ==
    /\ pc = "loop"
    /\ filter_index < Len(jira_filters)
    /\ sheet_name' = sheet_name_of(jira_filters[filter_index + 1])
    /\ Raise("WebDriverException")
    /\ UNCHANGED << jira_filters, wait_element, filter_index, page, dataframes_dict,
                    timed_out, handed, workbook, excel_file, email, email_success, quits,
                    xvars, svars >>

\* extract_jira_issues on a page with the issue table, and the DataFrame
\* stored under the sheet name.
Extract ==
    /\ pc = "extract"
    /\ page.table_present
    /\ dataframes_dict' =
         DictSet(dataframes_dict, sheet_name, DataFrame(AllFields, ExtractFrom(page.rows, << >>)))
    /\ filter_index' = filter_index + 1
    /\ pc' = "loop"
    /\ UNCHANGED << jira_filters, wait_element, sheet_name, page, timed_out, handed,
                    workbook, excel_file, email, email_success, quits, error, xvars, svars >>

\* extract_jira_issues on a page without the issue table: the wait for
\* #issuetable is outside any try, and its TimeoutException leaves main.
ExtractTimesOut ==
    /\ pc = "extract"
    /\ ~page.table_present
    /\ timed_out' = timed_out \cup { filter_index + 1 }
    /\ Raise("TimeoutException")
    /\ UNCHANGED << jira_filters, wait_element, filter_index, sheet_name, page,
                    dataframes_dict, handed, workbook, excel_file, email, email_success,
                    quits, xvars, svars >>

\* The loop is over: generate_excel_report writes a formatted sheet per entry
\* of the dict and saves the file.
GenerateReport ==
    /\ pc = "loop"
    /\ filter_index = Len(jira_filters)
    /\ ReportWritable(dataframes_dict)
    /\ handed' = HandedNames(dataframes_dict)
    /\ workbook' = Workbook(dataframes_dict)
    /\ excel_file' = "saved"
    /\ pc' = "email"
    /\ UNCHANGED << jira_filters, wait_element, filter_index, sheet_name, page,
                    dataframes_dict, timed_out, email, email_success, quits, error,
                    xvars, svars >>

\* generate_excel_report raises: a sheet title is refused, there is no sheet
\* to save, or the file cannot be written.
GenerateReportFails ==
    /\ pc = "loop"
    /\ filter_index = Len(jira_filters)
    /\ handed' = HandedNames(dataframes_dict)
    /\ Raise("ReportError")
    /\ UNCHANGED << jira_filters, wait_element, filter_index, sheet_name, page,
                    dataframes_dict, timed_out, workbook, excel_file, email, email_success,
                    quits, xvars, svars >>

\* A mutant of EmailDraft: remove_file is called whatever the draft step
\* returned.
EmailDraftAlwaysRemoves ==
    /\ pc = "email"
    /\ email' = EmailBody(dataframes_dict)
    /\ \E ok \in BOOLEAN : email_success' = IF ok THEN "yes" ELSE "no"
    /\ pc' = "remove"
    /\ UNCHANGED << jira_filters, wait_element, filter_index, sheet_name, page,
                    dataframes_dict, timed_out, handed, workbook, excel_file, quits, error,
                    xvars, svars >>

\* generate_email_draft: the body's numbers, then create_outlook_draft, which
\* returns True, or False when the file is missing or Outlook raises.
EmailDraft ==
    /\ pc = "email"
    /\ email' = EmailBody(dataframes_dict)
    /\ \E ok \in BOOLEAN :
         /\ email_success' = IF ok THEN "yes" ELSE "no"
         /\ pc' = IF ok THEN "remove" ELSE "finally"
    /\ UNCHANGED << jira_filters, wait_element, filter_index, sheet_name, page,
                    dataframes_dict, timed_out, handed, workbook, excel_file, quits, error,
                    xvars, svars >>

\* generate_email_draft raises before create_outlook_draft (the body template
\* does not take the four placeholders).
EmailDraftFails ==
    /\ pc = "email"
    /\ Raise("EmailError")
    /\ UNCHANGED << jira_filters, wait_element, filter_index, sheet_name, page,
                    dataframes_dict, timed_out, handed, workbook, excel_file, email,
                    email_success, quits, xvars, svars >>

\* remove_file(excel_filename): the file is removed, or os.remove raises and
\* the except leaves it.
RemoveFile ==
    /\ pc = "remove"
    /\ \E removed \in BOOLEAN : excel_file' = IF removed THEN "removed" ELSE "remove_failed"
    /\ pc' = "finally"
    /\ UNCHANGED << jira_filters, wait_element, filter_index, sheet_name, page,
                    dataframes_dict, timed_out, handed, workbook, email, email_success,
                    quits, error, xvars, svars >>

\* finally: driver.quit(); an exception then leaves main.
Quit ==
    /\ pc = "finally"
    /\ quits' = quits + 1
    /\ pc' = "done"
    /\ UNCHANGED << jira_filters, wait_element, filter_index, sheet_name, page,
                    dataframes_dict, timed_out, handed, workbook, excel_file, email,
                    email_success, error, xvars, svars >>

Next ==
    \/ Navigate
    \/ NavigateNoElement
    \/ NavigateFails
    \/ Extract
    \/ ExtractTimesOut
    \/ GenerateReport
    \/ GenerateReportFails
    \/ EmailDraft
    \/ EmailDraftFails
    \/ RemoveFile
    \/ Quit

Spec == Init /\ [][Next]_vars

\* ================================================================ claims

\* The identifying attribute is present and non-empty.
HasKey(r) == r.data_issuekey.kind = "str" /\ Len(r.data_issuekey.s) > 0

\* The position in the DataFrame of the record of row i (a row with a key).
PosInDf(i) == Cardinality({ k \in 1..i : HasKey(rows[k]) })

KeyedRows == { i \in 1..Len(rows) : HasKey(rows[i]) }

\* t is s without its leading and trailing spaces.
IsTrimOf(t, s) ==
    /\ t = << >> \/ (~IsSpace(t[1]) /\ ~IsSpace(t[Len(t)]))
    /\ \E i \in 0..Len(s) :
         /\ i + Len(t) <= Len(s)
         /\ SubSeq(s, i + 1, i + Len(t)) = t
         /\ \A k \in (1..i) \cup ((i + Len(t) + 1)..Len(s)) : IsSpace(s[k])

\* C1: the DataFrame extract_jira_issues returns holds exactly the rows whose
\* data-issuekey is present and non-empty, one record each, in the rows' order;
\* its length is the number of such rows, and while the loop runs the lists
\* hold the records of the keyed rows passed so far.
C1_DatasetIsKeyedSubsequence ==
    /\ Len(lists) = Cardinality({ k \in 1..row_index : HasKey(rows[k]) })
    /\ xpc = "done" =>
         LET keyed == SelectSeq(rows, HasKey)
         IN  /\ Len(df.records) = Cardinality(KeyedRows)
             /\ Len(df.records) = Len(keyed)
             /\ \A j \in 1..Len(keyed) :
                  /\ df.records[j].IssueKey = keyed[j].data_issuekey
                  /\ df.records[j] = ExtractRow(keyed[j])

\* C1's case: a page whose second row has no key, between two rows with
\* different keys, gave a DataFrame of two records.
C1_Witness ==
    /\ xpc = "done"
    /\ Len(rows) = 3
    /\ HasKey(rows[1]) /\ ~HasKey(rows[2]) /\ HasKey(rows[3])
    /\ rows[1].data_issuekey # rows[3].data_issuekey
    /\ Len(df.records) = 2

NonKeyFields ==
    { "IssueType", "IssueLink", "Summary", "Status", "Priority", "CustomerObjectId",
      "Assignee", "Created", "Classification" }

\* The cell a field is read from.
CellOf(f) ==
    CASE f = "IssueType" -> "td_issuetype"
      [] f = "IssueLink" -> "td_issuekey"
      [] f = "Summary" -> "td_summary"
      [] f = "Status" -> "td_status"
      [] f = "Priority" -> "td_priority"
      [] f = "CustomerObjectId" -> "td_customfield_14400"
      [] f = "Assignee" -> "td_assignee"
      [] f = "Created" -> "td_created"
      [] f = "Classification" -> "td_customfield_15400"

\* The failures of a field's extraction: the cell missing, the nested element
\* missing, the attribute absent.
FailuresOf(f) ==
    CASE f \in { "IssueType", "Priority" } -> { Absent, TdImg(Absent), TdImg(Img(NoneV)) }
      [] f = "IssueLink" -> { Absent, TdIssueKey(Absent), TdIssueKey(Anchor(NoneV)) }
      [] f \in { "Summary", "Status" } -> { Absent, TdNested(Absent) }
      [] f = "Created" -> { Absent, TdCreated(Absent), TdCreated(TimeElem(NoneV)) }
      [] OTHER -> { Absent }

\* C5: for every row with a key and every other field, a failure of that
\* field's extraction leaves the field the empty string, keeps the row, and
\* leaves every other field as it is without the failure.
C5_FieldFailureLeavesEmptyString ==
    xpc = "done" =>
      /\ Len(df.records) = Cardinality(KeyedRows)
      /\ \A i \in KeyedRows : \A f \in NonKeyFields :
           /\ rows[i][CellOf(f)] \in FailuresOf(f) => df.records[PosInDf(i)][f] = EmptyStr
           /\ \A bad \in FailuresOf(f) :
                LET failed == ExtractFrom(<< [ rows[i] EXCEPT ![CellOf(f)] = bad ] >>, << >>)
                IN  /\ Len(failed) = 1
                    /\ \A g \in (NonKeyFields \cup { "IssueKey" }) \ { f } :
                         failed[1][g] = df.records[PosInDf(i)][g]

\* C6: the assignee is the trimmed text of the <em> when the cell has one
\* (even an empty one, even beside a user link), else of the a.user-hover when
\* the cell has one, else of the cell itself; the empty string without a cell.
C6_AssigneeTierOrder ==
    xpc = "done" =>
      \A i \in KeyedRows :
         LET td == rows[i].td_assignee
             got == df.records[PosInDf(i)].Assignee
         IN  IF IsAbsent(td) THEN got = EmptyStr
             ELSE /\ got.kind = "str"
                  /\ IF ~IsAbsent(td.em) THEN IsTrimOf(got.s, td.em.text)
                     ELSE IF ~IsAbsent(td.a_user_hover)
                          THEN IsTrimOf(got.s, td.a_user_hover.text)
                          ELSE IsTrimOf(got.s, td.text)

\* C6's case: an empty <em> beside a user link with a name gave the empty string.
C6_Witness ==
    /\ xpc = "done"
    /\ \E i \in KeyedRows :
         LET td == rows[i].td_assignee
         IN  /\ ~IsAbsent(td)
             /\ ~IsAbsent(td.em) /\ td.em.text = << >>
             /\ ~IsAbsent(td.a_user_hover) /\ td.a_user_hover.text # << >>
             /\ df.records[PosInDf(i)].Assignee = EmptyStr

\* The datetime attribute of the row's <time>, None when there is none.
RawCreated(r) ==
    IF IsAbsent(r.td_created) THEN NoneV
    ELSE IF IsAbsent(r.td_created.time) THEN NoneV
    ELSE r.td_created.time.datetime

\* got is the naive UTC reading of the instant t names, and converting it
\* again as a UTC timestamp gives it back.
IsUtcOf(got, t) ==
    /\ got.kind = "datetime"
    /\ got.hour \in 0..23 /\ got.minute \in 0..59
    /\ WallMinutes(got.day, got.hour, got.minute)
         = WallMinutes(t.day, t.hour, t.minute) - t.off
    /\ astimezone_utc([day |-> got.day, hour |-> got.hour, minute |-> got.minute,
                       off |-> 0]) = got

\* C7, as stated: every ISO-8601 timestamp with an offset is stored as the
\* same instant in UTC without its timezone, and converting again changes
\* nothing.
C7_EveryTimestampStoredAsUtc ==
    xpc = "done" =>
      \A i \in KeyedRows :
         IsIso(RawCreated(rows[i])) =>
            IsUtcOf(df.records[PosInDf(i)].Created, RawCreated(rows[i]).iso)

\* C7, amended: the same for every timestamp whose UTC reading a datetime can
\* hold; for the others the attribute's string is stored as it is.
C7_TimestampInRangeStoredAsUtc ==
    xpc = "done" =>
      \A i \in KeyedRows :
         IsIso(RawCreated(rows[i])) =>
            LET t == RawCreated(rows[i]).iso
                utc == WallMinutes(t.day, t.hour, t.minute) - t.off
                got == df.records[PosInDf(i)].Created
            IN  IF utc >= 0 /\ utc <= MaxMinutes
                THEN IsUtcOf(got, t)
                ELSE got = RawCreated(rows[i])

\* C7's case: a timestamp with an offset whose UTC reading falls on another day.
C7_Witness ==
    /\ xpc = "done"
    /\ \E i \in KeyedRows :
         /\ IsIso(RawCreated(rows[i]))
         /\ RawCreated(rows[i]).iso.off # 0
         /\ df.records[PosInDf(i)].Created.kind = "datetime"
         /\ df.records[PosInDf(i)].Created.day # RawCreated(rows[i]).iso.day

\* C8: extracting the created date never drops a row with a key and never
\* leaves an error value; an attribute that does not parse is stored as it
\* is, and the stored value is the empty string exactly when there is no cell,
\* no <time>, no attribute or an empty attribute.
C8_CreatedFallsBackToRaw ==
    xpc = "done" =>
      /\ Len(df.records) = Cardinality(KeyedRows)
      /\ \A i \in KeyedRows :
           LET raw == RawCreated(rows[i])
               got == df.records[PosInDf(i)].Created
           IN  /\ got.kind \in { "str", "datetime" }
               /\ (raw.kind = "str" /\ ~IsIso(raw)) => got = raw
               /\ got = EmptyStr <=> (raw = NoneV \/ raw = EmptyStr)

\* C8's case: an attribute that is no timestamp was stored as it is.
C8_Witness ==
    /\ xpc = "done"
    /\ \E i \in KeyedRows :
         /\ RawCreated(rows[i]).kind = "str"
         /\ ~IsIso(RawCreated(rows[i]))
         /\ RawCreated(rows[i]) # EmptyStr
         /\ df.records[PosInDf(i)].Created = RawCreated(rows[i])

\* The sheet of the workbook that holds the dict's entry k.
HoldsDataset(sheet, entry) ==
    /\ sheet.title = entry.key
    /\ Len(sheet.cells) = Len(entry.value.records) + 1
    /\ \A r \in 1..Len(entry.value.records) :
         sheet.cells[r + 1][1].value = entry.value.records[r].IssueKey

\* C2: the report is built only once every filter has been gone through, and
\* when a query fails (its navigation or its wait for the table), the
\* DataFrames collected from the queries before it are sheets of the report
\* the run generates.
C2_EarlierDatasetsReachTheReport ==
    /\ workbook # NoneV => filter_index = Len(jira_filters)
    /\ (pc = "done" /\ error \in { "none", "TimeoutException", "WebDriverException" }) =>
         \A k \in 1..Len(dataframes_dict) :
            /\ workbook # NoneV
            /\ \E s \in 1..Len(workbook.sheets) :
                 HoldsDataset(workbook.sheets[s], dataframes_dict[k])

\* C3: a timeout of the wait for the wait target or for the issue table is
\* not fatal: no TimeoutException leaves the loop, and the filter's DataFrame
\* (empty if need be) is stored under its sheet name.
C3_WaitTimeoutIsNotFatal ==
    \A k \in timed_out :
       /\ error # "TimeoutException"
       /\ (filter_index >= k \/ pc \in { "finally", "done" }) =>
            HasEntry(dataframes_dict, sheet_name_of(jira_filters[k]))

\* C4: no DataFrame is merged into or overwritten by another: the dict holds
\* as many DataFrames as filters have been processed, unless the collision of
\* two sheet names has been raised as an error.
C4_NoDatasetOverwritten ==
    \/ Len(dataframes_dict) = filter_index
    \/ error = "DuplicateSheetName"

\* A sheet name within the length an xlsx sheet title may have and without
\* the characters it may not hold.
IsSafeTitle(name) ==
    /\ Len(name) <= 31
    /\ \A i \in 1..Len(name) : name[i] \notin InvalidTitleChars

\* C9: every sheet name given to the workbook has at most 31 characters and
\* none of the characters a sheet title may not hold, or the run has ended in
\* an error instead of a sheet of that name.
C9_SheetNamesAreSafe ==
    /\ \A k \in 1..Len(handed) : IsSafeTitle(handed[k]) \/ error # "none"
    /\ workbook # NoneV =>
         \A s \in 1..Len(workbook.sheets) : IsSafeTitle(workbook.sheets[s].title)

\* The greatest of a non-empty set of numbers, 0 for the empty set.
MaxOf(S) == IF S = { } THEN 0 ELSE CHOOSE m \in S : \A n \in S : n <= m

\* The column's longest rendered data cell (L) and its header's length (H).
LongestValue(c) == MaxOf({ StrLen(worksheet.cells[r][c].value) : r \in 2..max_row(worksheet) })

HeaderLength(c) == Len(worksheet.cells[1][c].value.s)

WidthsSet == spc \in { "filter", "done" }

\* C10: once adjust_column_widths has run, every column's width is
\* min(max(L, 1.5 * H) + 2, 80), with L the longest rendered cell of the column
\* and H the header's length: never more than 80, never less than
\* min(1.5 * H + 2, 80).  Widths are held doubled.
C10_ColumnWidthFormula ==
    WidthsSet =>
      \A c \in 1..NumCols(worksheet) :
         LET L == LongestValue(c)
             H == HeaderLength(c)
             w2 == worksheet.widths[c]
         IN  /\ w2 = Min2(Max2(2 * L, 3 * H) + 4, 160)
             /\ w2 <= 160
             /\ w2 >= Min2(3 * H + 4, 160)

\* C10's case: a column whose header has 6 characters and whose longest value
\* has 500 got the width 80.
C10_Witness ==
    /\ WidthsSet
    /\ \E c \in 1..NumCols(worksheet) :
         /\ HeaderLength(c) = 6
         /\ LongestValue(c) = 500
         /\ worksheet.widths[c] = 160

\* C11: the formatting steps applied a second time to a formatted sheet leave
\* every cell (value, font, fill, hyperlink, style, number format), every
\* column width and the filter range as the first application left them.
C11_FormattingIsIdempotent ==
    [][(spc = "done" /\ spc' = "again") => worksheet' = worksheet]_vars

\* C11's case: a sheet formatted twice that has a hyperlink, a date number
\* format, a width at the limit and its filter range.
C11_Witness ==
    /\ spc = "again"
    /\ worksheet.auto_filter # NoneV
    /\ \E c \in 1..NumCols(worksheet) : worksheet.widths[c] = 2 * max_width
    /\ \E r \in 2..max_row(worksheet) : \E c \in 1..NumCols(worksheet) :
         worksheet.cells[r][c].hyperlink # NoneV
    /\ \E r \in 2..max_row(worksheet) : \E c \in 1..NumCols(worksheet) :
         worksheet.cells[r][c].number_format = "yyyy-mm-dd hh:mm:ss"

\* The hyperlink step has run on the sheet.
LinksConverted == spc \in { "dates", "widths", "filter", "done", "again" }

\* The columns whose header is "Issue link".
LinkColumns ==
    { c \in 1..NumCols(worksheet) :
        worksheet.cells[1][c].value = Str(<< "I", "s", "s", "u", "e", " ", "l", "i", "n", "k" >>) }

IsNonEmptyString(v) == v.kind = "str" /\ StrLen(v) > 0

\* C12: once the hyperlink step has run, a cell has a hyperlink exactly when
\* it is a data cell of the column headed "Issue link" and holds a non-empty
\* string, and the hyperlink's target is that string; a sheet without such a
\* column has no hyperlink, and its formatting goes on.
C12_HyperlinksOnlyInTheLinkColumn ==
    LinksConverted =>
      /\ \A r \in 1..max_row(worksheet) : \A c \in 1..NumCols(worksheet) :
            LET cell == worksheet.cells[r][c]
            IN  IF r >= 2 /\ c \in LinkColumns /\ IsNonEmptyString(cell.value)
                THEN cell.hyperlink = cell.value /\ cell.style = "Hyperlink"
                ELSE cell.hyperlink = NoneV /\ cell.style = "Normal"
      /\ (LinkColumns = { } /\ spc # "again") => ENABLED SNext

\* C12's case: a sheet whose link column is not the third, with a data cell
\* turned into a hyperlink and an empty one left alone.
C12_Witness ==
    /\ LinksConverted
    /\ LinkColumns = { 1 }
    /\ \E r \in 2..max_row(worksheet) :
         /\ worksheet.cells[r][1].hyperlink = Str(<< "h", ":", "/", "1" >>)
         /\ worksheet.cells[r][3].hyperlink = NoneV
    /\ \E r \in 2..max_row(worksheet) :
         /\ worksheet.cells[r][1].value = EmptyStr
         /\ worksheet.cells[r][1].hyperlink = NoneV

\* The number of data rows of the report's sheets up to the n-th.
RECURSIVE DataRowsUpTo(_)
DataRowsUpTo(n) ==
    IF n = 0 THEN 0 ELSE (max_row(workbook.sheets[n]) - 1) + DataRowsUpTo(n - 1)

\* The sheet is the entry's DataFrame: the entry's name, a header row of the
\* column names, then the records in order, cell by cell.
IsSheetOf(sheet, entry) ==
    LET frm == entry.value
    IN  /\ sheet.title = entry.key
        /\ max_row(sheet) = 1 + Len(frm.records)
        /\ \A c \in 1..Len(frm.columns) :
              /\ sheet.cells[1][c].value = Str(HeaderText(frm.columns[c]))
              /\ \A r \in 1..Len(frm.records) :
                    LET v == frm.records[r][frm.columns[c]]
                    IN  sheet.cells[r + 1][c].value = IF v = NoneV THEN EmptyStr ELSE v

\* C13: the report has one sheet per entry of the mapping, in its order, each
\* a header row followed by the DataFrame's records in order (none for an
\* empty DataFrame), and the total given to the email's body is the sum of
\* the sheets' data rows.
C13_OneSheetPerEntryAndTotal ==
    /\ workbook # NoneV =>
         /\ Len(workbook.sheets) = Len(dataframes_dict)
         /\ \A k \in 1..Len(dataframes_dict) :
               IsSheetOf(workbook.sheets[k], dataframes_dict[k])
    /\ email # NoneV =>
         /\ workbook # NoneV
         /\ email.NUM_ISSUES = DataRowsUpTo(Len(workbook.sheets))
         /\ email.NUM_PESTANAS = Len(workbook.sheets)
         /\ \A k \in 1..Len(workbook.sheets) :
               /\ email.LISTA_PESTANAS[k].name = workbook.sheets[k].title
               /\ email.LISTA_PESTANAS[k].issues = max_row(workbook.sheets[k]) - 1

\* C13's case: a report of two sheets, the first header-only, the second with
\* two data rows, and a total of two given to the email.
C13_Witness ==
    /\ email # NoneV
    /\ workbook # NoneV
    /\ Len(workbook.sheets) = 2
    /\ max_row(workbook.sheets[1]) = 1
    /\ max_row(workbook.sheets[2]) = 3
    /\ email.NUM_ISSUES = 2

\* C14: driver.quit() is called once, as the last step of main, on every
\* path: it has been called exactly when main is over; nothing (no
\* navigation, no extraction, no other step) follows it; an exception raised
\* by any step leads to the finally clause, where the call is the step to
\* take; and extraction, the email step and the removal do not end the run.
C14_DriverQuitOnceAndLast ==
    /\ quits <= 1
    /\ (quits = 1) <=> (pc = "done")
    /\ quits = 1 => ~ENABLED Next
    /\ error # "none" => pc \in { "finally", "done" }
    /\ pc = "finally" => ENABLED Quit
    /\ pc \in { "extract", "email", "remove" } => ENABLED Next

\* C14's case: main is over after an extraction raised with a DataFrame
\* already stored, and the driver has been quit.
C14_Witness ==
    /\ pc = "done"
    /\ quits = 1
    /\ error = "TimeoutException"
    /\ Len(dataframes_dict) >= 1
    /\ filter_index < Len(jira_filters)

\* C15 as stated: the report file is removed exactly when the draft step
\* returned success, and never before that step.
C15_FileRemovedIffDraftSucceeded ==
    /\ excel_file = "removed" => email_success = "yes"
    /\ (pc = "done" /\ email_success = "yes") => excel_file = "removed"
    /\ pc = "email" => excel_file = "saved"

\* C15, amended: remove_file is called exactly when the draft step returned
\* success, and only after it; the file is then removed unless os.remove
\* fails, and it is kept when the draft step returned failure or raised.
C15_FileRemovalAttemptedIffDraftSucceeded ==
    /\ excel_file \in { "removed", "remove_failed" } =>
         email_success = "yes" /\ email # NoneV
    /\ (pc \in { "finally", "done" } /\ email_success = "yes") =>
         excel_file \in { "removed", "remove_failed" }
    /\ email_success = "no" => excel_file = "saved"
    /\ email_success = "unset" => excel_file \in { "none", "saved" }
    /\ pc = "email" => excel_file = "saved" /\ email_success = "unset"

\* C15's case: the draft step returned success and the file has been removed.
C15_Witness ==
    /\ pc = "done"
    /\ email_success = "yes"
    /\ email # NoneV
    /\ excel_file = "removed"

====
